---- MODULE Spec2Model ----
(***************************************************************************)
(* Model of the reference-assignment engine of auto_reference_generator:  *)
(* the tree enumerator (ReferenceGenerator.list_directories), the         *)
(* reference compositor (ReferenceGenerator.reference_loop) and the       *)
(* keyword / suffix helpers of common.py.                                  *)
(*                                                                         *)
(* Python strings are TLA+ strings; Char(s, i) is the i-th character.      *)
(* A Python value that may be an int or a str (the running reference) is   *)
(* a record with a type tag t ("int", "str" or "none"), the int value n    *)
(* and the str value s; the field of the other type is a filler.           *)
(* The platform is POSIX: win_256_check is the identity, win_file_split    *)
(* splits on "/", filter_win_hidden is always False.                       *)
(***************************************************************************)
EXTENDS Integers, Sequences, FiniteSets, TLC

\* ------------------------------------------------------------------------
\* Python string primitives
\* ------------------------------------------------------------------------

None == [t |-> "none", n |-> 0, s |-> ""]

PyInt(i) == [t |-> "int", n |-> i, s |-> ""]

PyStr(str) == [t |-> "str", n |-> 0, s |-> str]

Char(s, i) == SubSeq(s, i, i)

Chars(s) == { Char(s, i) : i \in 1..Len(s) }

Digits == "0123456789"

LowerChars == "abcdefghijklmnopqrstuvwxyz"

UpperChars == "ABCDEFGHIJKLMNOPQRSTUVWXYZ"

\* printable ASCII in code-point order: codes 32..95, then 97..126
\* (the grave accent, code 96, cannot be written in a TLA+ string and is
\* outside the alphabet of the model)
AsciiLow == " !\"#$%&'()*+,-./0123456789:;<=>?@ABCDEFGHIJKLMNOPQRSTUVWXYZ[\\]^_"

AsciiHigh == "abcdefghijklmnopqrstuvwxyz{|}~"

\* string.punctuation as spelled in keyword_replace (without the grave accent)
Punctuation == "!\"#$%&'()*+,-./:;<=>?@[\\]^_{|}~"

IndexIn(c, s) == CHOOSE i \in 1..Len(s) : Char(s, i) = c

CharCode(c) == IF c \in Chars(AsciiLow) THEN 31 + IndexIn(c, AsciiLow) ELSE 96 + IndexIn(c, AsciiHigh)

IsDigit(c) == c \in Chars(Digits)

DigitVal(c) == IndexIn(c, Digits) - 1

UpperChar(c) == IF c \in Chars(LowerChars) THEN Char(UpperChars, IndexIn(c, LowerChars)) ELSE c

LowerChar(c) == IF c \in Chars(UpperChars) THEN Char(LowerChars, IndexIn(c, UpperChars)) ELSE c

RECURSIVE MapChars(_, _)
MapChars(s, up) ==
    IF s = "" THEN ""
    ELSE (IF up THEN UpperChar(Head(s)) ELSE LowerChar(Head(s))) \o MapChars(Tail(s), up)

\* str.upper
Upper(s) == MapChars(s, TRUE)

\* str.casefold (ASCII)
Casefold(s) == MapChars(s, FALSE)

\* str < str : code-point lexicographic order
RECURSIVE StrLess(_, _)
StrLess(a, b) ==
    IF b = "" THEN FALSE
    ELSE IF a = "" THEN TRUE
    ELSE IF Head(a) = Head(b) THEN StrLess(Tail(a), Tail(b))
    ELSE CharCode(Head(a)) < CharCode(Head(b))

StartsWith(s, p) == Len(p) <= Len(s) /\ SubSeq(s, 1, Len(p)) = p

\* the Python operator  sub in s
Contains(sub, s) == \E i \in 0..(Len(s) - Len(sub)) : SubSeq(s, i + 1, i + Len(sub)) = sub

\* str.replace(old, ""): every non-overlapping occurrence, left to right
RECURSIVE Remove(_, _)
Remove(s, old) ==
    IF old = "" \/ s = "" THEN s
    ELSE IF StartsWith(s, old) THEN Remove(SubSeq(s, Len(old) + 1, Len(s)), old)
    ELSE Head(s) \o Remove(Tail(s), old)

\* str.translate(str.maketrans('', '', Punctuation))
RECURSIVE StripPunctuation(_)
StripPunctuation(s) ==
    IF s = "" THEN ""
    ELSE (IF Head(s) \in Chars(Punctuation) THEN "" ELSE Head(s)) \o StripPunctuation(Tail(s))

\* str.split(" ", maxsplit): maxsplit < 0 means no limit
RECURSIVE Split(_, _)
Split(s, maxsplit) ==
    IF maxsplit = 0 \/ ~ Contains(" ", s) THEN << s >>
    ELSE LET i == CHOOSE k \in 1..Len(s) :
                      Char(s, k) = " " /\ \A j \in 1..(k - 1) : Char(s, j) # " "
         IN  << SubSeq(s, 1, i - 1) >> \o Split(SubSeq(s, i + 1, Len(s)), maxsplit - 1)

\* str(int)
RECURSIVE NatToStr(_)
NatToStr(n) == IF n < 10 THEN Char(Digits, n + 1) ELSE NatToStr(n \div 10) \o Char(Digits, (n % 10) + 1)

IntToStr(n) == IF n < 0 THEN "-" \o NatToStr(0 - n) ELSE NatToStr(n)

RECURSIVE Strip(_)
Strip(s) ==
    IF s = "" THEN s
    ELSE IF Head(s) = " " THEN Strip(Tail(s))
    ELSE IF Char(s, Len(s)) = " " THEN Strip(SubSeq(s, 1, Len(s) - 1))
    ELSE s

Unsigned(s) == IF s # "" /\ Head(s) \in {"+", "-"} THEN Tail(s) ELSE s

\* int(str) accepts surrounding blanks, one sign, digits, single "_" between digits
IntLiteral(s) ==
    LET b == Unsigned(Strip(s))
    IN  /\ b # ""
        /\ \A i \in 1..Len(b) : IsDigit(Char(b, i)) \/ Char(b, i) = "_"
        /\ IsDigit(Head(b)) /\ IsDigit(Char(b, Len(b)))
        /\ ~ Contains("__", b)

RECURSIVE DigitsValue(_, _)
DigitsValue(s, acc) ==
    IF s = "" THEN acc
    ELSE IF Head(s) = "_" THEN DigitsValue(Tail(s), acc)
    ELSE DigitsValue(Tail(s), acc * 10 + DigitVal(Head(s)))

IntValue(s) ==
    LET t == Strip(s)
        v == DigitsValue(Unsigned(t), 0)
    IN  IF Head(t) = "-" THEN 0 - v ELSE v

\* str(x) for a Python int, str or None
ToStr(x) == IF x.t = "int" THEN IntToStr(x.n) ELSE IF x.t = "none" THEN "None" ELSE x.s

\* int(x) succeeds (a ValueError or TypeError otherwise)
IntOk(x) == x.t = "int" \/ (x.t = "str" /\ IntLiteral(x.s))

\* int(x), defined when IntOk(x)
ToInt(x) == IF x.t = "int" THEN x.n ELSE IntValue(x.s)

\* x is None
IsNone(x) == x.t = "none"

\* truthiness of a Python int, str or None (the tests  if pref:  and  if self.prefix:)
Truthy(x) == (x.t = "int" /\ x.n # 0) \/ (x.t = "str" /\ x.s # "")

\* x[0:n] for a str x and an int n
Slice(x, n) == IF n >= 0 THEN SubSeq(x, 1, IF n < Len(x) THEN n ELSE Len(x))
               ELSE SubSeq(x, 1, IF Len(x) + n > 0 THEN Len(x) + n ELSE 0)

RECURSIVE Join(_)
Join(parts) == IF Len(parts) = 0 THEN "" ELSE Head(parts) \o Join(Tail(parts))

\* the outcome of a call: a returned value, or the name of the exception raised
Return(v) == [exc |-> "", val |-> v]

Raise(e) == [exc |-> e, val |-> None]

\* ------------------------------------------------------------------------
\* common.py
\* ------------------------------------------------------------------------

\* A JSON document is [isdict |-> BOOLEAN, items |-> sequence of <<key, value>>].
\* dict.get(key): the value of the last item with that key, else None
DictGet(items, key) ==
    LET hits == { i \in 1..Len(items) : items[i][1] = key }
    IN  IF hits = {} THEN None
        ELSE PyStr(items[CHOOSE i \in hits : \A j \in hits : j <= i][2])

\* {k.upper(): v for k, v in keyword_dict.items()}
UpperKeys(items) == [ i \in 1..Len(items) |-> << Upper(items[i][1]), items[i][2] >> ]

\* "".join([x[0] for x in words]): IndexError on an empty word
Initials(words) ==
    IF \E i \in 1..Len(words) : words[i] = "" THEN Raise("IndexError")
    ELSE Return(PyStr(Join([ i \in 1..Len(words) |-> Char(words[i], 1) ])))

\* keyword_replace(keywords_list, file_path, original_ref, keywords_mode,
\*                 abbreviation_number, keywords_case_sensitivity)
\* file_name is the last component of file_path, is_dir is os.path.isdir(file_path),
\* json is the document stored at keywords_list[0] (read in from_json mode only)
keyword_replace(keywords_list, file_name, is_dir, original_ref, keywords_mode, abbreviation_number, keywords_case_sensitivity, json) ==
    IF keywords_mode \in {"initialise", "firstletters"} THEN
        LET kl == IF keywords_case_sensitivity = TRUE
                  THEN [ i \in 1..Len(keywords_list) |-> Upper(keywords_list[i]) ]
                  ELSE keywords_list
            fn == IF keywords_case_sensitivity = TRUE THEN Upper(file_name) ELSE file_name
        IN  IF (Len(kl) = 0 \/ \E i \in 1..Len(kl) : Contains(fn, kl[i])) /\ is_dir THEN
                LET replace_ref == StripPunctuation(fn)
                IN  IF keywords_mode = "initialise" /\ Len(Split(replace_ref, 0 - 1)) > 1 THEN
                        Initials(Split(Upper(replace_ref),
                                       IF IsNone(abbreviation_number) THEN 0 - 1
                                       ELSE abbreviation_number.n))
                    ELSE
                        Return(PyStr(Remove(Upper(Slice(replace_ref,
                                       IF IsNone(abbreviation_number) THEN 3
                                       ELSE abbreviation_number.n)), " ")))
            ELSE Return(original_ref)
    ELSE IF keywords_mode = "from_json" THEN
        IF ~ json.isdict THEN Raise("ValueError")
        ELSE LET keyword_dict == IF keywords_case_sensitivity = TRUE
                                 THEN UpperKeys(json.items) ELSE json.items
                 fn == IF keywords_case_sensitivity = TRUE THEN Upper(file_name) ELSE file_name
             IN  IF (\E i \in 1..Len(keyword_dict) : Contains(fn, keyword_dict[i][1])) /\ is_dir
                 THEN Return(PyStr(ToStr(DictGet(keyword_dict, fn))))
                 ELSE Return(original_ref)
    ELSE Raise("ValueError")

\* a suffix_addition that takes the files for the folders and the folders for the files
suffix_addition_swapped(is_dir, ref, suffix, suffix_options) ==
    IF suffix_options = "apply_to_files" /\ is_dir THEN PyStr(ToStr(ref) \o ToStr(suffix))
    ELSE IF suffix_options = "apply_to_folders" /\ ~ is_dir THEN PyStr(ToStr(ref) \o ToStr(suffix))
    ELSE IF suffix_options = "apply_to_both" THEN PyStr(ToStr(ref) \o ToStr(suffix))
    ELSE ref

\* suffix_addition(file_path, ref, suffix, suffix_options)
suffix_addition(is_dir, ref, suffix, suffix_options) ==
    IF suffix_options = "apply_to_files" /\ ~ is_dir THEN PyStr(ToStr(ref) \o ToStr(suffix))
    ELSE IF suffix_options = "apply_to_folders" /\ is_dir THEN PyStr(ToStr(ref) \o ToStr(suffix))
    ELSE IF suffix_options = "apply_to_both" THEN PyStr(ToStr(ref) \o ToStr(suffix))
    ELSE ref

\* suffix_subtraction(file_path, ref, suffix, suffix_options)
suffix_subtraction(is_dir, ref, suffix, suffix_options) ==
    IF suffix_options = "apply_to_files" /\ ~ is_dir THEN PyStr(Remove(ToStr(ref), ToStr(suffix)))
    ELSE IF suffix_options = "apply_to_folders" /\ is_dir THEN PyStr(Remove(ToStr(ref), ToStr(suffix)))
    ELSE IF suffix_options = "apply_to_both" THEN PyStr(Remove(ToStr(ref), ToStr(suffix)))
    ELSE ref

\* ------------------------------------------------------------------------
\* The directory tree
\* ------------------------------------------------------------------------
\* A path is the sequence of entry names below the root (the root is << >>);
\* a tree maps every path it holds to "Dir" or "File".  Names hold no "/",
\* so two paths are equal exactly when their path strings are.

ROOT == << >>

\* os.path.abspath(os.path.join(root, os.pardir)) of a root that is not "/"
ABOVE == << ".." >>

Basename(path) == path[Len(path)]

Dirname(path) == SubSeq(path, 1, Len(path) - 1)

IsDir(t, path) == t[path] = "Dir"

IsFile(t, path) == t[path] = "File"

\* a walk that yields every descendant instead of the immediate children
Scandir_recursive(t, directory) ==
    { p \in DOMAIN t : Len(p) > Len(directory) /\ SubSeq(p, 1, Len(directory)) = directory }

\* os.scandir(directory)
Scandir(t, directory) ==
    { p \in DOMAIN t : Len(p) = Len(directory) + 1 /\ Dirname(p) = directory }

Grow(t, names) ==
    { t @@ (Append(d, nm) :> k) :
        d \in { q \in DOMAIN t : t[q] = "Dir" }, nm \in names, k \in {"Dir", "File"} }

\* every tree of at most n entries below the root, named from names
RECURSIVE TreesUpTo(_, _)
TreesUpTo(n, names) ==
    IF n = 0 THEN { (ROOT :> "Dir") }
    ELSE LET smaller == TreesUpTo(n - 1, names)
         IN  smaller \cup UNION { Grow(t, names) : t \in smaller }

\* ------------------------------------------------------------------------
\* reference_generator.py
\* ------------------------------------------------------------------------

\* options.properties: the name of the output-staging folder
METAFOLDER == "meta"

\* os.path.basename(__file__)
SCRIPT == "reference_generator.py"

VARIABLES
    tree,             \* the directory tree under self.root
    cfg,              \* the constructor arguments of ReferenceGenerator
    delimiter,        \* self.delimiter
    accession_count,  \* self.accession_count
    record_list,      \* self.record_list
    accession_list,   \* self.accession_list
    reference_list,   \* self.reference_list
    df,               \* self.df: the rows REF_SECTION, INDEX_FIELD, PARENT_FIELD, LEVEL_FIELD
    stack,            \* the active calls of list_directories, innermost first
    c,                \* the loop counter of init_reference_loop
    pc,               \* "new", "listing", "composing", "done" or "failed";
                      \* "call" and "returned" around a direct call of a helper;
                      \* in main also "main", "confirm", "pruning", "export_<writer>",
                      \* "sleep_<writer>" and "exported"
    error,            \* the exception that ended the run, "" if none
    descended,        \* history: the directories list_directories was called on
    returned,         \* the outcome of a direct call of keyword_replace
    walk,             \* remove_empty_directories: the directories os.walk has yet to yield
    empty_dirs,       \* remove_empty_directories: empty_dirs
    outputs,          \* what the run has created under output_path
    attempts,         \* the nested calls of the exporter that is running
    confirm_delete    \* remove_empty_directories: confirm_delete, None before input()

vars == << tree, cfg, delimiter, accession_count, record_list, accession_list,
           reference_list, df, stack, c, pc, error, descended, returned,
           walk, empty_dirs, outputs, attempts, confirm_delete >>

\* the state of main outside init_dataframe
mainvars == << walk, empty_dirs, outputs, attempts, confirm_delete >>

\* the sort keys of cli.py (sort_key) as orders on the children of one directory
KeyLess_cased(t, a, b) ==
    IF cfg.sort_key = "folders_first" /\ IsFile(t, a) # IsFile(t, b) THEN IsFile(t, b)
    ELSE StrLess(Basename(a), Basename(b))

KeyLess(t, a, b) ==
    IF cfg.sort_key = "folders_first" /\ IsFile(t, a) # IsFile(t, b) THEN IsFile(t, b)
    ELSE StrLess(Casefold(Basename(a)), Casefold(Basename(b)))

\* sorted(paths, key = sort_key): entries with equal keys keep the order in
\* which os.scandir yields them, which is arbitrary
Sorted(t, paths) ==
    { l \in [1..Cardinality(paths) -> paths] :
        /\ \A i, j \in DOMAIN l : i # j => l[i] # l[j]
        /\ \A i, j \in DOMAIN l : i < j => ~ KeyLess(t, l[j], l[i]) }

\* filter_directories(directory, sort_key): the set of possible results
filter_directories_shown(directory) ==
    Sorted(tree,
           IF cfg.hidden_flag = FALSE THEN
               { p \in Scandir(tree, directory) :
                   /\ ~ StartsWith(Basename(p), ".")
                   /\ Basename(p) # METAFOLDER
                   /\ Basename(p) \notin {"auto_ref.exe", "auto_ref.bin"}
                   /\ Basename(p) # SCRIPT }
           ELSE Scandir(tree, directory))

filter_directories(directory) ==
    Sorted(tree,
           IF cfg.hidden_flag = FALSE THEN
               { p \in Scandir(tree, directory) :
                   /\ ~ StartsWith(Basename(p), ".")
                   /\ Basename(p) # METAFOLDER
                   /\ Basename(p) \notin {"auto_ref.exe", "auto_ref.bin"}
                   /\ Basename(p) # SCRIPT }
           ELSE
               { p \in Scandir(tree, directory) :
                   /\ Basename(p) # METAFOLDER
                   /\ Basename(p) \notin {"auto_ref.exe", "auto_ref.bin"}
                   /\ Basename(p) # SCRIPT })

\* an accession counter that also advances on the entries that get a marker
accession_running_number_shared(is_dir, delim) ==
    LET flag == Casefold(cfg.accession_flag.s)
        numbered == IF ~ IsNone(cfg.accession_prefix)
                    THEN PyStr(cfg.accession_prefix.s \o delim \o IntToStr(accession_count))
                    ELSE PyInt(accession_count)
        marked(m) == IF ~ IsNone(cfg.accession_prefix)
                     THEN PyStr(cfg.accession_prefix.s \o delim \o m) ELSE PyStr(m)
    IN  IF IsNone(cfg.accession_flag) THEN << None, accession_count >>
        ELSE IF flag = "file" THEN
            IF is_dir THEN << marked("Dir"), accession_count + 1 >>
            ELSE << numbered, accession_count + 1 >>
        ELSE IF flag = "dir" THEN
            IF is_dir THEN << numbered, accession_count + 1 >>
            ELSE << marked("File"), accession_count + 1 >>
        ELSE IF flag = "all" THEN
            IF Truthy(cfg.accession_prefix)
            THEN << PyStr(cfg.accession_prefix.s \o delim \o IntToStr(accession_count)),
                    accession_count >>
            ELSE << PyInt(accession_count), accession_count + 1 >>
        ELSE << None, accession_count >>

\* accession_running_number(file_path, delimiter):
\* << the accession reference, the new accession_count >>
accession_running_number(is_dir, delim) ==
    LET flag == Casefold(cfg.accession_flag.s)
        numbered == IF ~ IsNone(cfg.accession_prefix)
                    THEN PyStr(cfg.accession_prefix.s \o delim \o IntToStr(accession_count))
                    ELSE PyInt(accession_count)
        marked(m) == IF ~ IsNone(cfg.accession_prefix)
                     THEN PyStr(cfg.accession_prefix.s \o delim \o m) ELSE PyStr(m)
    IN  IF IsNone(cfg.accession_flag) THEN << None, accession_count >>
        ELSE IF flag = "file" THEN
            IF is_dir THEN << marked("Dir"), accession_count >>
            ELSE << numbered, accession_count + 1 >>
        ELSE IF flag = "dir" THEN
            IF is_dir THEN << numbered, accession_count + 1 >>
            ELSE << marked("File"), accession_count >>
        ELSE IF flag = "all" THEN
            IF Truthy(cfg.accession_prefix)
            THEN << PyStr(cfg.accession_prefix.s \o delim \o IntToStr(accession_count)),
                    accession_count >>
            ELSE << PyInt(accession_count), accession_count + 1 >>
        ELSE << None, accession_count >>

\* os.path.abspath(os.path.join(path, os.pardir))
Parent(path) == IF path = ROOT THEN cfg.root_parent ELSE Dirname(path)

\* the class_dict of parse_directory_dict(file_path, level, ref)
Record(file_path, level, ref) ==
    [ FullName |-> file_path, Parent |-> Parent(file_path), Type |-> tree[file_path],
      Level |-> level, Ref_Section |-> ref, Archive_Reference |-> None ]

\* the call  keyword_replace(keyword_file_name, mode = ..., abbreviation_number = ...)
\* of list_directories: keyword_replace declares no parameter named mode and
\* the call omits file_path and original_ref, so binding the arguments raises
CallKeywordReplace(keyword_file_name) == Raise("TypeError")

\* list_directories, "Keyword Replacement": the new ref and pref, or an exception
KeywordStage(file_name, is_dir, ref, pref) ==
    LET keep == [exc |-> "", ref |-> ref, pref |-> pref]
        kl == cfg.keywords_list.l
        keyword_file_name == IF cfg.keywords_case_sensitivity = TRUE THEN Upper(file_name)
                             ELSE file_name
        npref == IF cfg.keywords_retain_order = FALSE THEN PyInt(ref.n - 1) ELSE ref
    IN  IF IsNone(cfg.keywords_list) THEN keep
        ELSE IF (Len(kl) = 0 /\ is_dir)
                 \/ ((\E i \in 1..Len(kl) : Contains(keyword_file_name, kl[i])) /\ is_dir) THEN
            LET r == CallKeywordReplace(keyword_file_name)
            IN  IF r.exc # "" THEN [exc |-> r.exc, ref |-> ref, pref |-> npref]
                ELSE [exc |-> "", ref |-> PyStr(ToStr(r.val)), pref |-> npref]
        ELSE IF cfg.keywords_mode = "from_json" /\ is_dir THEN
            IF ~ cfg.json.isdict THEN [exc |-> "SystemExit", ref |-> ref, pref |-> pref]
            ELSE LET keyword_dict == IF cfg.keywords_case_sensitivity = TRUE
                                     THEN UpperKeys(cfg.json.items) ELSE cfg.json.items
                 IN  IF \E i \in 1..Len(keyword_dict) :
                            Contains(keyword_file_name, keyword_dict[i][1])
                     THEN [exc |-> "", ref |-> PyStr(ToStr(DictGet(keyword_dict, keyword_file_name))),
                           pref |-> npref]
                     ELSE keep
        ELSE keep

\* list_directories, "Suffix Addition"
SuffixStage(is_dir, ref) ==
    IF IsNone(cfg.suffix) THEN ref
    ELSE suffix_addition(is_dir, ref, cfg.suffix, cfg.suffix_options)

\* list_directories, "Suffix Removal for next reference increment"
SuffixRemoval(is_dir, ref) ==
    IF IsNone(cfg.suffix) THEN ref
    ELSE suffix_subtraction(is_dir, ref, cfg.suffix, cfg.suffix_options)

\* an increment that leaves the counter of a plain entry where it was
Increment_stale(ref, pref) ==
    IF Truthy(pref) THEN [exc |-> "", ref |-> PyInt(pref.n + 1), pref |-> None]
    ELSE IF IntOk(ref) THEN [exc |-> "", ref |-> PyInt(ToInt(ref)), pref |-> pref]
    ELSE [exc |-> "ValueError", ref |-> ref, pref |-> pref]

\* list_directories, the increment that ends an iteration
Increment(ref, pref) ==
    IF Truthy(pref) THEN [exc |-> "", ref |-> PyInt(pref.n + 1), pref |-> None]
    ELSE IF IntOk(ref) THEN [exc |-> "", ref |-> PyInt(ToInt(ref) + 1), pref |-> pref]
    ELSE [exc |-> "ValueError", ref |-> ref, pref |-> pref]

\* a level limit that also blanks the entries of the limit's own level
Token_inclusive(level, ref) ==
    IF ~ IsNone(cfg.level_limit) /\ level >= cfg.level_limit.n THEN PyStr("") ELSE ref

\* the token list_directories records for an entry of this level
Token(level, ref) ==
    IF ~ IsNone(cfg.level_limit) /\ level > cfg.level_limit.n THEN PyStr("") ELSE ref

\* the exception that leaves list_directories: except Exception re-raises
\* SystemError, SystemExit is no Exception and passes through
Escalate(exc) == IF exc = "SystemExit" THEN "SystemExit" ELSE "SystemError"

\* a new call list_directories(directory, ref)
Frame(directory, ref, list_directory) ==
    [ directory |-> directory, list_directory |-> list_directory, i |-> 1,
      ref |-> PyInt(ref), pref |-> None ]

\* a concatenation that puts the child's token before the parent's
NewRef_swapped(ref, parent_ref, track, new_ref, delim) ==
    IF parent_ref = PyInt(0) THEN
        IF track = 1 THEN PyStr(ToStr(ref)) ELSE PyStr(ToStr(new_ref))
    ELSE IF track = 1 THEN
        IF ref = PyStr("") THEN PyStr(ToStr(parent_ref))
        ELSE PyStr(ToStr(ref) \o delim \o ToStr(parent_ref))
    ELSE IF ref = PyStr("") /\ parent_ref = PyStr("") THEN new_ref
    ELSE PyStr(ToStr(new_ref) \o delim \o ToStr(parent_ref))

\* reference_loop, the recursive case: new_ref after the lookup of a parent
\* whose token is parent_ref
NewRef(ref, parent_ref, track, new_ref, delim) ==
    IF parent_ref = PyInt(0) THEN
        IF track = 1 THEN PyStr(ToStr(ref)) ELSE PyStr(ToStr(new_ref))
    ELSE IF track = 1 THEN
        IF ref = PyStr("") THEN PyStr(ToStr(parent_ref))
        ELSE PyStr(ToStr(parent_ref) \o delim \o ToStr(ref))
    ELSE IF ref = PyStr("") /\ parent_ref = PyStr("") THEN new_ref
    ELSE PyStr(ToStr(parent_ref) \o delim \o ToStr(new_ref))

\* reference_loop(ref, parent, track, level, new_ref, delimiter); a chain of
\* more lookups than df has rows repeats a row and ends in RecursionError
RECURSIVE reference_loop(_, _, _, _, _, _, _)
reference_loop(ref, parent, track, level, new_ref, delim, fuel) ==
    LET idx == { i \in 1..Len(df) : df[i].FullName = parent }
    IN  IF idx = {} THEN
            IF level = 0
            THEN Return(IF Truthy(cfg.prefix) THEN ToStr(cfg.prefix) ELSE ToStr(ref))
            ELSE Return(IF Truthy(cfg.prefix)
                        THEN ToStr(cfg.prefix) \o delim \o ToStr(new_ref)
                        ELSE ToStr(new_ref))
        ELSE IF Cardinality(idx) > 1 THEN Raise("ValueError")
        ELSE IF fuel = 0 THEN Raise("RecursionError")
        ELSE
            LET row == df[CHOOSE i \in idx : TRUE]
            IN  reference_loop(ref, row.Parent, track + 1, level,
                               NewRef(ref, row.Ref_Section, track, new_ref, delim),
                               delim, fuel - 1)

\* parse_directory_dict: os.stat(file_path) raises
StatFails_vanished(file_path) == file_path \notin DOMAIN tree

StatFails(file_path) == file_path \notin DOMAIN tree \/ file_path \in cfg.faults.stat

\* parse_directory_dict: HashGenerator(self.fixity).hash_generator(file_path) raises
HashFails(file_path) ==
    Truthy(cfg.fixity) /\ IsFile(tree, file_path) /\ file_path \in cfg.faults.hash

\* parse_directory_dict(file_path, level, ref) raises SystemError
ParseRaises(file_path) == StatFails(file_path) \/ HashFails(file_path)

\* filter_directories(directory): os.scandir(directory) raises, which
\* filter_directories turns into SystemError
ListFails(directory) == directory \in cfg.faults.list

\* parse_directory_dict(file_path, level, ref): os.stat comes first, then the
\* accession reference, with ACCDELIMTER when no delimiter was passed to
\* __init__, then the hash, then the record
parse_directory_dict(file_path, level, ref) ==
    IF StatFails(file_path)
    THEN UNCHANGED << delimiter, accession_list, accession_count, record_list >>
    ELSE
    LET delim == IF ~ IsNone(cfg.accession_flag) /\ IsNone(cfg.delimiter)
                 THEN cfg.ACCDELIMTER ELSE delimiter
        acc == accession_running_number(IsDir(tree, file_path), delim)
    IN  /\ delimiter' = delim
        /\ accession_list' = IF IsNone(cfg.accession_flag) THEN accession_list
                             ELSE Append(accession_list, acc[1])
        /\ accession_count' = acc[2]
        /\ record_list' = IF HashFails(file_path) THEN record_list
                          ELSE Append(record_list, Record(file_path, level, ref))

\* the run ends with an uncaught exception
Abort(exc) ==
    /\ pc' = "failed"
    /\ error' = exc
    /\ stack' = << >>
    /\ UNCHANGED descended

\* init_dataframe, up to the call of list_directories(self.root, self.start_ref)
InitDataframe ==
    /\ pc = "new"
    /\ parse_directory_dict(ROOT, 0, PyInt(0))
    /\ IF ParseRaises(ROOT) \/ ListFails(ROOT) THEN Abort("SystemError")
       ELSE /\ \E list_directory \in filter_directories(ROOT) :
                   stack' = << Frame(ROOT, cfg.start_ref, list_directory) >>
            /\ pc' = "listing"
            /\ descended' = << ROOT >>
            /\ UNCHANGED error
    /\ UNCHANGED << tree, cfg, reference_list, df, c, returned >>
    /\ UNCHANGED mainvars

\* list_directories: level = directory.count(os.sep) - self.root_level + 1;
\* the root of the file system, "/", holds one separator and so does a
\* directory right under it
Level(directory) ==
    IF cfg.root_parent = ROOT /\ directory # ROOT THEN Len(directory) ELSE Len(directory) + 1

\* one iteration of the for loop of the innermost list_directories call
ListDirectoriesStep ==
    /\ pc = "listing"
    /\ stack # << >>
    /\ Head(stack).i <= Len(Head(stack).list_directory)
    /\ LET f == Head(stack)
           file_path == f.list_directory[f.i]
           is_dir == IsDir(tree, file_path)
           level == Level(f.directory)
           k == KeywordStage(Basename(file_path), is_dir, f.ref, f.pref)
           suffixed == SuffixStage(is_dir, k.ref)
           inc == Increment(SuffixRemoval(is_dir, suffixed), k.pref)
           next == [f EXCEPT !.i = f.i + 1, !.ref = inc.ref, !.pref = inc.pref]
       IN  IF k.exc # "" THEN
               /\ Abort(Escalate(k.exc))
               /\ UNCHANGED << delimiter, accession_list, accession_count, record_list >>
           ELSE
               /\ parse_directory_dict(file_path, level, Token(level, suffixed))
               /\ IF ParseRaises(file_path) THEN Abort("SystemError")
                  ELSE IF inc.exc # "" THEN Abort(Escalate(inc.exc))
                  ELSE IF is_dir /\ ListFails(file_path) THEN Abort("SystemError")
                  ELSE /\ IF is_dir
                          THEN /\ \E list_directory \in filter_directories(file_path) :
                                      stack' = << Frame(file_path, 1, list_directory), next >>
                                               \o Tail(stack)
                               /\ descended' = Append(descended, file_path)
                          ELSE /\ stack' = << next >> \o Tail(stack)
                               /\ UNCHANGED descended
                       /\ UNCHANGED << pc, error >>
    /\ UNCHANGED << tree, cfg, reference_list, df, c, returned >>
    /\ UNCHANGED mainvars

\* the for loop of the innermost list_directories call is exhausted
ListDirectoriesReturn ==
    /\ pc = "listing"
    /\ stack # << >>
    /\ Head(stack).i > Len(Head(stack).list_directory)
    /\ stack' = Tail(stack)
    /\ UNCHANGED << tree, cfg, delimiter, accession_count, record_list, accession_list,
                    reference_list, df, c, pc, error, descended, returned >>
    /\ UNCHANGED mainvars

\* init_dataframe after list_directories: self.df is built from record_list
\* (full paths are unique, so the left merge on the parent keeps the rows)
BuildDataframe ==
    /\ pc = "listing"
    /\ stack = << >>
    /\ df' = record_list
    /\ c' = 0
    /\ pc' = IF cfg.skip_flag THEN "done" ELSE "composing"
    /\ UNCHANGED << tree, cfg, delimiter, accession_count, record_list, accession_list,
                    reference_list, stack, error, descended, returned >>
    /\ UNCHANGED mainvars

\* init_reference_loop: one iteration of the loop over list_loop
ReferenceLoopStep ==
    /\ pc = "composing"
    /\ c < Len(df)
    /\ LET row == df[c + 1]
           r == reference_loop(row.Ref_Section, row.Parent, 1, row.Level, None,
                               delimiter, Len(df))
       IN  IF r.exc # "" THEN
               /\ Abort("SystemError")
               /\ UNCHANGED << reference_list, c >>
           ELSE
               /\ reference_list' = Append(reference_list, r.val)
               /\ c' = c + 1
               /\ UNCHANGED << pc, error, stack, descended >>
    /\ UNCHANGED << tree, cfg, delimiter, accession_count, record_list, accession_list, df,
                    returned >>
    /\ UNCHANGED mainvars

\* init_reference_loop after the loop: the column REFERENCE_FIELD is assigned
InitReferenceLoopEnd ==
    /\ pc = "composing"
    /\ c = Len(df)
    /\ IF Len(reference_list) # Len(df) THEN
           /\ Abort("ValueError")
           /\ UNCHANGED df
       ELSE
           /\ df' = [ i \in 1..Len(df) |->
                        [df[i] EXCEPT !.Archive_Reference = PyStr(reference_list[i])] ]
           /\ pc' = "done"
           /\ UNCHANGED << error, stack, descended >>
    /\ UNCHANGED << tree, cfg, delimiter, accession_count, record_list, accession_list,
                    reference_list, c, returned >>
    /\ UNCHANGED mainvars

Next ==
    \/ InitDataframe
    \/ ListDirectoriesStep
    \/ ListDirectoriesReturn
    \/ BuildDataframe
    \/ ReferenceLoopStep
    \/ InitReferenceLoopEnd

\* ------------------------------------------------------------------------
\* Construction: ReferenceGenerator.__init__
\* ------------------------------------------------------------------------

\* the defaults of __init__ (keywords_mode "None" stands for None), the JSON
\* document and the options the run reads, and the entries on which a system
\* call of the run fails: os.stat (stat), open or read (hash), os.scandir
\* (list), os.rmdir (rmdir), and the output files another process has locked
Defaults ==
    [ prefix |-> None, suffix |-> None, suffix_options |-> "apply_to_files",
      level_limit |-> None, accprefix |-> None, start_ref |-> 1, skip_flag |-> FALSE,
      accession_flag |-> None, hidden_flag |-> FALSE, delimiter |-> PyStr("/"),
      keywords_list |-> None, keywords_mode |-> "None", keywords_retain_order |-> FALSE,
      keywords_case_sensitivity |-> TRUE, sort_key |-> "folders_first",
      keywords_abbreviation_number |-> None,
      json |-> [isdict |-> TRUE, items |-> << >>],
      root_parent |-> ABOVE, ACCDELIMTER |-> "-",
      fixity |-> None, empty_flag |-> FALSE, meta_dir_flag |-> TRUE, output_format |-> "xlsx",
      faults |-> [stat |-> {}, hash |-> {}, list |-> {}, rmdir |-> {}],
      locked |-> [list_txt |-> "free", catalogue |-> "free"] ]

\* the attributes __init__ sets from the arguments args, for the tree t
Attributes(t, args) ==
    /\ tree = t
    /\ cfg = [ f \in DOMAIN args \cup {"accession_prefix"} |->
                 IF f = "accession_prefix"
                 THEN (IF Truthy(args.accprefix) THEN args.accprefix ELSE args.prefix)
                 ELSE args[f] ]
    /\ delimiter = IF IsNone(args.delimiter) THEN "/" ELSE args.delimiter.s
    /\ accession_count = args.start_ref
    /\ record_list = << >>
    /\ accession_list = << >>
    /\ reference_list = << >>
    /\ df = << >>
    /\ stack = << >>
    /\ c = 0
    /\ error = ""
    /\ descended = << >>
    /\ returned = Return(None)
    /\ walk = {}
    /\ empty_dirs = << >>
    /\ outputs = {}
    /\ attempts = 0
    /\ confirm_delete = None

\* a new ReferenceGenerator, before init_dataframe
Constructed(t, args) == Attributes(t, args) /\ pc = "new"

PyList(l) == [t |-> "list", l |-> l]

\* ------------------------------------------------------------------------
\* Runs with no keywords, no suffix and no level limit
\* ------------------------------------------------------------------------

MaxEntries == 4

MaxHiddenEntries == 3

MaxStartRef == 2

Names == {"A", "b"}

HiddenNames == {".h"}

\* every tree of visible names, and the smaller trees that hold hidden entries
Trees == TreesUpTo(MaxEntries, Names) \cup TreesUpTo(MaxHiddenEntries, Names \cup HiddenNames)

HasHidden(t) == \E p \in DOMAIN t : \E k \in 1..Len(p) : StartsWith(p[k], ".")

\* << prefix, delimiter >>
Layouts == { << None, PyStr("/") >>, << PyStr("P"), PyStr("/") >>, << PyStr("P"), PyStr(".") >> }

Init ==
    \E t \in Trees, l \in Layouts, st \in 0..MaxStartRef :
        \E h \in (IF HasHidden(t) THEN BOOLEAN ELSE {FALSE}) :
            Constructed(t, [Defaults EXCEPT !.prefix = l[1], !.delimiter = l[2],
                                            !.start_ref = st, !.hidden_flag = h])

Spec == Init /\ [][Next]_vars

\* ------------------------------------------------------------------------
\* Properties of runs with no keywords, no suffix and no level limit
\* ------------------------------------------------------------------------

NoOverrides == IsNone(cfg.keywords_list) /\ IsNone(cfg.suffix) /\ IsNone(cfg.level_limit)

\* the enumeration has ended and every record is in record_list
Enumerated == pc \in {"composing", "done"}

RowOf(path) == CHOOSE i \in 1..Len(df) : df[i].FullName = path

RECURSIVE JoinWith(_, _)
JoinWith(parts, delim) ==
    IF Len(parts) = 0 THEN ""
    ELSE IF Len(parts) = 1 THEN parts[1]
    ELSE parts[1] \o delim \o JoinWith(Tail(parts), delim)

\* the raw tokens of the ancestors of path below the root, outermost first, then its own
AncestorTokens(path) ==
    [ k \in 1..Len(path) |-> ToStr(df[RowOf(SubSeq(path, 1, k))].Ref_Section) ]

ExpectedReference(row) ==
    IF row.Level = 0 THEN (IF Truthy(cfg.prefix) THEN cfg.prefix.s ELSE "0")
    ELSE (IF Truthy(cfg.prefix) THEN cfg.prefix.s \o delimiter ELSE "")
         \o JoinWith(AncestorTokens(row.FullName), delimiter)

\* C1: after init_dataframe with no keywords, no suffix, no level limit and a
\* start_ref of at least 1 (the default is 1), the final reference of the root
\* is the prefix if one is configured and "0" otherwise, and the final
\* reference of every other record is the delimiter-join of the raw tokens of
\* its ancestors below the root and its own, behind prefix + delimiter if a
\* prefix is configured
C1_DefaultReferences ==
    (pc = "done" /\ NoOverrides /\ cfg.start_ref >= 1) =>
        \A i \in 1..Len(df) : df[i].Archive_Reference = PyStr(ExpectedReference(df[i]))

\* a finished run with a prefix, a record three levels down and a second
\* top-level entry
C1_Witness ==
    /\ pc = "done" /\ NoOverrides /\ cfg.start_ref >= 1 /\ Truthy(cfg.prefix)
    /\ \E i, j \in 1..Len(df) :
          /\ df[i].Level = 3
          /\ df[j].Level = 1 /\ df[j].Ref_Section = PyInt(cfg.start_ref + 1)

\* the inclusion filter, stated on names
Admitted(name) ==
    /\ cfg.hidden_flag = FALSE => ~ StartsWith(name, ".")
    /\ name \notin {METAFOLDER, "auto_ref.exe", "auto_ref.bin", SCRIPT}

\* the entries below the root that the filter lets the walk reach
Reachable == { p \in DOMAIN tree : p # ROOT /\ \A k \in 1..Len(p) : Admitted(p[k]) }

NoDuplicates(seq) == \A i, j \in 1..Len(seq) : i # j => seq[i] # seq[j]

\* C2: one run of the enumeration leaves exactly one record for the root and
\* for every directory and file reachable under the inclusion filter, no path
\* in two records, and list_directories was called exactly once on the root
\* and on every reachable directory
C2_OneRecordPerEntry ==
    Enumerated =>
        /\ Len(record_list) = 1 + Cardinality(Reachable)
        /\ { record_list[i].FullName : i \in 1..Len(record_list) } = {ROOT} \cup Reachable
        /\ NoDuplicates([ i \in 1..Len(record_list) |-> record_list[i].FullName ])
        /\ { descended[i] : i \in 1..Len(descended) }
             = {ROOT} \cup { p \in Reachable : IsDir(tree, p) }
        /\ NoDuplicates(descended)

\* an enumerated tree with a reachable directory, a reachable file inside a
\* directory and an entry the filter leaves out
C2_Witness ==
    /\ Enumerated
    /\ Reachable # DOMAIN tree \ {ROOT}
    /\ \E p, q \in Reachable : IsDir(tree, p) /\ IsFile(tree, q) /\ Len(q) = 2

\* the positions in record_list of the records of the children of directory
ChildRows(directory) ==
    { i \in 1..Len(record_list) :
        record_list[i].Level >= 1 /\ record_list[i].Parent = directory }

\* C3: with no keywords, suffix or level limit the records of the children of
\* one directory appear in sorted order and carry consecutive integers, from
\* start_ref for the children of the root and from 1 for any other directory
C3_ConsecutiveSiblings ==
    NoOverrides =>
        \A r \in 1..Len(record_list) :
            LET rows == ChildRows(record_list[r].FullName)
                first == IF record_list[r].FullName = ROOT THEN cfg.start_ref ELSE 1
            IN  \A i \in rows :
                    /\ record_list[i].Ref_Section
                         = PyInt(first + Cardinality({ j \in rows : j < i }))
                    /\ \A j \in rows :
                           j < i => ~ KeyLess(tree, record_list[i].FullName,
                                              record_list[j].FullName)

\* a start_ref other than 1, two children under the root and two under
\* another directory
C3_Witness ==
    /\ Enumerated /\ NoOverrides /\ cfg.start_ref = 2
    /\ Cardinality(ChildRows(ROOT)) >= 2
    /\ \E r \in 1..Len(record_list) :
          record_list[r].Level = 1 /\ Cardinality(ChildRows(record_list[r].FullName)) >= 2

\* ------------------------------------------------------------------------
\* Runs with keywords
\* ------------------------------------------------------------------------

MaxKeywordEntries == 3

KeywordNames == {"John Smith", "z"}

KeywordLists == { << >>, << "JOHN SMITH" >>, << "John Smith" >> }

\* the path given as the only keyword in from_json mode
JsonPath == "/kw.json"

JsonDocuments ==
    { [isdict |-> TRUE, items |-> << << "JOHN SMITH", "JSM" >> >>],
      [isdict |-> TRUE, items |-> << << "john smith", "JSM" >> >>],
      [isdict |-> FALSE, items |-> << >>] }

\* << keywords_mode, keywords, the JSON document at keywords[0] >>
KeywordSetups ==
    { << m, l, Defaults.json >> : m \in {"initialise", "firstletters"}, l \in KeywordLists }
    \cup { << "from_json", << JsonPath >>, j >> : j \in JsonDocuments }

InitKeywords ==
    \E t \in TreesUpTo(MaxKeywordEntries, KeywordNames), k \in KeywordSetups,
       st \in 0..MaxStartRef, ro \in BOOLEAN, cs \in BOOLEAN :
        Constructed(t, [Defaults EXCEPT !.keywords_mode = k[1], !.keywords_list = PyList(k[2]),
                                        !.json = k[3], !.start_ref = st,
                                        !.keywords_retain_order = ro,
                                        !.keywords_case_sensitivity = cs])

SpecKeywords == InitKeywords /\ [][Next]_vars

\* ------------------------------------------------------------------------
\* Runs with a suffix
\* ------------------------------------------------------------------------

MaxSuffixEntries == 3

Suffixes == { "_SFX", "", "1", "2" }

SuffixOptions == { "apply_to_files", "apply_to_folders", "apply_to_both" }

InitSuffix ==
    \E t \in TreesUpTo(MaxSuffixEntries, Names), sfx \in Suffixes, so \in SuffixOptions,
       st \in 0..MaxStartRef :
        Constructed(t, [Defaults EXCEPT !.suffix = PyStr(sfx), !.suffix_options = so,
                                        !.start_ref = st])

SpecSuffix == InitSuffix /\ [][Next]_vars

\* ------------------------------------------------------------------------
\* Direct calls of keyword_replace (as the tests of common.py make them)
\* ------------------------------------------------------------------------

\* keyword_replace(keywords, <the one entry of the tree>, "REF", keywords_mode,
\*                 keywords_abbreviation_number, keywords_case_sensitivity)
KeywordReplaceCall ==
    /\ pc = "call"
    /\ \E file_path \in DOMAIN tree \ {ROOT} :
           returned' = keyword_replace(cfg.keywords_list.l, Basename(file_path),
                                       IsDir(tree, file_path), PyStr("REF"), cfg.keywords_mode,
                                       cfg.keywords_abbreviation_number,
                                       cfg.keywords_case_sensitivity, cfg.json)
    /\ pc' = "returned"
    /\ UNCHANGED << tree, cfg, delimiter, accession_count, record_list, accession_list,
                    reference_list, df, stack, c, error, descended >>
    /\ UNCHANGED mainvars

NextKeywordReplace == KeywordReplaceCall

ReplaceNames == { "John Smith", "John", "Jo", "John - Smith", "A b", " x", "a.b c" }

ReplaceLists == { << >>, << "John Smith", "A b" >>, << "JOHN SMITH" >> }

ReplaceModes == { "initialise", "firstletters" }

Abbreviations == { None, PyInt(1), PyInt(2), PyInt(5) }

InitKeywordReplace ==
    \E nm \in ReplaceNames, kind \in {"Dir", "File"}, l \in ReplaceLists, m \in ReplaceModes,
       ab \in Abbreviations, cs \in BOOLEAN :
        /\ Attributes((ROOT :> "Dir") @@ (<< nm >> :> kind),
                      [Defaults EXCEPT !.keywords_list = PyList(l), !.keywords_mode = m,
                                       !.keywords_abbreviation_number = ab,
                                       !.keywords_case_sensitivity = cs])
        /\ pc = "call"

SpecKeywordReplace == InitKeywordReplace /\ [][NextKeywordReplace]_vars

\* ------------------------------------------------------------------------
\* Properties of runs with keywords
\* ------------------------------------------------------------------------

\* list_directories is about to handle the entry PendingPath
Pending ==
    pc = "listing" /\ stack # << >> /\ Head(stack).i <= Len(Head(stack).list_directory)

PendingPath == Head(stack).list_directory[Head(stack).i]

\* the counter the entry PendingPath meets
PendingCounter == Head(stack).ref

\* what the keyword stage of list_directories does with the entry PendingPath
PendingStage ==
    KeywordStage(Basename(PendingPath), IsDir(tree, PendingPath), PendingCounter,
                 Head(stack).pref)

\* the match policy of list_directories fires for the entry PendingPath
OverrideFires ==
    Pending /\ (PendingStage.exc = "TypeError" \/ PendingStage.ref # PendingCounter)

\* the override fires and yields a keyword token
OverrideYieldsToken == OverrideFires /\ PendingStage.exc = ""

LastRecord(records) == records[Len(records)]

\* C4: when a keyword override fires for a directory that meets the counter
\* n, the next sibling meets n if keywords_retain_order is false and n + 1
\* if it is true
C4_RetainOrder ==
    [][ OverrideYieldsToken =>
          /\ pc' = "listing"
          /\ Len(stack') >= 2
          /\ stack'[2].ref = PyInt(IF cfg.keywords_retain_order
                                   THEN PendingCounter.n + 1 ELSE PendingCounter.n) ]_vars

\* C5: a keyword token never breaks the counter arithmetic: the iteration of
\* list_directories that records an entry (keyword-matched or not, first child
\* or later, any start_ref, either keywords_retain_order) ends without an
\* error, and an entry that is not keyword-matched is recorded with an integer
C5_CounterSurvivesKeywords ==
    [][ (Pending /\ PendingStage.exc = "") =>
          /\ pc' = "listing"
          /\ ~ OverrideFires => LastRecord(record_list').Ref_Section.t = "int" ]_vars

\* rows is a finished table in which every entry inside a directory recorded
\* with a keyword token has a final reference that begins with the final
\* reference of that directory, which ends with the token, and the delimiter
InsideBeginsWithToken(rows) ==
    \A i, j \in 1..Len(rows) :
        ( /\ rows[i].Ref_Section.t = "str"
          /\ Len(rows[j].FullName) > Len(rows[i].FullName)
          /\ SubSeq(rows[j].FullName, 1, Len(rows[i].FullName)) = rows[i].FullName )
        => LET dir == rows[i].Archive_Reference.s
               tok == rows[i].Ref_Section.s
           IN  /\ Len(dir) >= Len(tok)
               /\ SubSeq(dir, Len(dir) - Len(tok) + 1, Len(dir)) = tok
               /\ StartsWith(rows[j].Archive_Reference.s, dir \o delimiter)

\* the initials of the words of a name: the upper-cased first letters of the
\* runs of characters between spaces, punctuation left out
Words(name) == SelectSeq(Split(StripPunctuation(name), 0 - 1), LAMBDA w : w # "")

InitialsOf(name) == Join([ i \in 1..Len(Words(name)) |-> Upper(Char(Words(name)[i], 1)) ])

\* C6: with keywords_mode "initialise" a directory for which the match policy
\* fires on a configured keyword is recorded with the initials of its name as
\* raw token, and in the finished table the final reference of every entry
\* inside such a directory begins with that token and the delimiter
C6_InitialiseToken ==
    [][ /\ ( OverrideFires /\ cfg.keywords_mode = "initialise"
             /\ Len(cfg.keywords_list.l) > 0 /\ Len(Words(Basename(PendingPath))) > 1 )
           => /\ pc' = "listing"
              /\ LastRecord(record_list').FullName = PendingPath
              /\ LastRecord(record_list').Ref_Section
                   = PyStr(InitialsOf(Basename(PendingPath)))
        /\ ( cfg.keywords_mode = "initialise" /\ pc' = "done" )
           => InsideBeginsWithToken(df') ]_vars

\* the keys and the name as the case toggle has them compared
Normalised(str) == IF cfg.keywords_case_sensitivity = TRUE THEN Upper(str) ELSE str

\* the literal the JSON object maps the name to, << >> if it is no key
Literals(name) ==
    SelectSeq(cfg.json.items, LAMBDA kv : Normalised(kv[1]) = Normalised(name))

\* C7: with keywords_mode "from_json" a directory whose name is a key of the
\* JSON object is recorded with the mapped literal as raw token, the run goes
\* on, and in the finished table the final reference of every entry inside
\* such a directory begins with that literal and the delimiter
C7_FromJsonLiteral ==
    [][ /\ ( Pending /\ cfg.keywords_mode = "from_json" /\ cfg.json.isdict
             /\ IsDir(tree, PendingPath) /\ Literals(Basename(PendingPath)) # << >> )
           => /\ pc' = "listing"
              /\ LastRecord(record_list').FullName = PendingPath
              /\ LastRecord(record_list').Ref_Section
                   = PyStr(Literals(Basename(PendingPath))[1][2])
        /\ ( cfg.keywords_mode = "from_json" /\ pc' = "done" )
           => InsideBeginsWithToken(df') ]_vars

\* C9: the case toggle is applied to the directory name and to the keywords
\* alike: a directory is matched exactly when its name, compared as the
\* toggle says (upper-cased, as by default, or as written), is contained in a
\* keyword compared the same way
C9_UniformCaseToggle ==
    ( Pending /\ IsDir(tree, PendingPath) /\ cfg.keywords_mode \in {"initialise", "firstletters"}
      /\ Len(cfg.keywords_list.l) > 0 )
    => ( OverrideFires <=>
           \E i \in 1..Len(cfg.keywords_list.l) :
               Contains(Normalised(Basename(PendingPath)), Normalised(cfg.keywords_list.l[i])) )

\* ------------------------------------------------------------------------
\* Properties of direct calls of keyword_replace
\* ------------------------------------------------------------------------

\* the entry keyword_replace was called on
CalledPath == CHOOSE p \in DOMAIN tree : p # ROOT

\* the name is contained in a keyword, both compared as the case toggle says
NameMatches(name) ==
    \/ Len(cfg.keywords_list.l) = 0
    \/ \E i \in 1..Len(cfg.keywords_list.l) :
           Contains(Normalised(name), Normalised(cfg.keywords_list.l[i]))

\* the first n characters of the name without punctuation, upper-cased
\* (the spaces among them are left out of the comparison)
FirstLetters(name, n) == Remove(Upper(Slice(StripPunctuation(name), n)), " ")

\* C8: keyword_replace on a matching directory returns, in "initialise" mode
\* with no abbreviation number, the initials of a name of several words and
\* the first N characters (N = 3 unless given) of a name of one word, and in
\* "firstletters" mode always the first N characters, upper-cased; on a name
\* that does not match, or on a file, it returns the original reference
C8_KeywordReplace ==
    pc = "returned" =>
        LET name == Basename(CalledPath)
            n == IF IsNone(cfg.keywords_abbreviation_number) THEN 3
                 ELSE cfg.keywords_abbreviation_number.n
        IN  IF ~ (IsDir(tree, CalledPath) /\ NameMatches(name))
            THEN returned = Return(PyStr("REF"))
            ELSE IF cfg.keywords_mode = "initialise" /\ Len(Words(name)) > 1
            THEN ~ IsNone(cfg.keywords_abbreviation_number)
                 \/ returned = Return(PyStr(InitialsOf(name)))
            ELSE returned = Return(PyStr(FirstLetters(name, n)))

\* ------------------------------------------------------------------------
\* Properties of runs with a suffix
\* ------------------------------------------------------------------------

\* the suffix is added to the token of the entry PendingPath
SuffixApplies ==
    /\ Pending /\ ~ IsNone(cfg.suffix)
    /\ \/ cfg.suffix_options = "apply_to_both"
       \/ cfg.suffix_options = "apply_to_files" /\ IsFile(tree, PendingPath)
       \/ cfg.suffix_options = "apply_to_folders" /\ IsDir(tree, PendingPath)

\* the call of list_directories that handled PendingPath, after the step
CallerFrame(stk, path) == IF IsDir(tree, path) THEN stk[2] ELSE stk[1]

\* C10: for every suffix S an entry that meets the counter n is recorded as
\* n followed by S, list_directories goes on, and the next sibling meets n + 1
C10_SuffixRestoresCounter ==
    [][ SuffixApplies =>
          /\ pc' = "listing"
          /\ LastRecord(record_list').Ref_Section
               = PyStr(IntToStr(PendingCounter.n) \o cfg.suffix.s)
          /\ CallerFrame(stack', PendingPath).ref = PyInt(PendingCounter.n + 1) ]_vars

\* C11: the suffix is added to the recorded token of an entry exactly when
\* the kind of the entry is the target of suffix_options: the token of a
\* targeted entry that meets the counter n is n followed by the suffix, the
\* token of any other entry is the counter n itself
C11_SuffixTarget ==
    [][ (Pending /\ ~ IsNone(cfg.suffix)) =>
          /\ LastRecord(record_list').FullName = PendingPath
          /\ LastRecord(record_list').Ref_Section
               = IF SuffixApplies THEN PyStr(IntToStr(PendingCounter.n) \o cfg.suffix.s)
                 ELSE PendingCounter ]_vars

\* under apply_to_files a file was recorded with the suffix and a directory
\* with its plain counter
C11_Witness ==
    /\ ~ IsNone(cfg.suffix) /\ cfg.suffix.s = "_SFX" /\ cfg.suffix_options = "apply_to_files"
    /\ \E i, j \in 1..Len(record_list) :
          /\ record_list[i].Type = "File" /\ record_list[i].Ref_Section = PyStr("2_SFX")
          /\ record_list[j].Type = "Dir" /\ record_list[j].Ref_Section = PyInt(1)

\* ------------------------------------------------------------------------
\* Runs with a level limit
\* ------------------------------------------------------------------------

MaxLimitEntries == 4

MaxLevelLimit == 2

InitLevelLimit ==
    \E t \in TreesUpTo(MaxLimitEntries, Names), l \in 0..MaxLevelLimit, st \in 0..MaxStartRef :
        Constructed(t, [Defaults EXCEPT !.level_limit = PyInt(l), !.start_ref = st])

SpecLevelLimit == InitLevelLimit /\ [][Next]_vars

\* the counter the first child of directory meets
FirstCounter(directory) == IF directory = ROOT THEN cfg.start_ref ELSE 1

\* C12: with a level limit L every reachable entry is recorded, an entry of
\* a level above L with the empty token and an entry of a level up to L with
\* its counter, and the counter of every directory advances by one per child
\* handled, blanked or not
C12_LevelLimit ==
    ~ IsNone(cfg.level_limit) =>
        /\ Enumerated =>
             { record_list[i].FullName : i \in 1..Len(record_list) } = {ROOT} \cup Reachable
        /\ \A i \in 1..Len(record_list) :
               record_list[i].Level >= 1 =>
                   LET rows == ChildRows(record_list[i].Parent)
                       n == FirstCounter(record_list[i].Parent)
                              + Cardinality({ j \in rows : j < i })
                   IN  record_list[i].Ref_Section
                         = IF record_list[i].Level > cfg.level_limit.n THEN PyStr("")
                           ELSE PyInt(n)
        /\ \A k \in 1..Len(stack) :
               stack[k].ref = PyInt(FirstCounter(stack[k].directory) + stack[k].i - 1)

\* a finished enumeration with limit 1: a second child at level 1 numbered
\* after a directory whose two children are blanked
C12_Witness ==
    /\ Enumerated /\ cfg.level_limit = PyInt(1)
    /\ \E i, j, k \in 1..Len(record_list) :
          /\ i < j /\ j < k
          /\ record_list[i].Level = 2 /\ record_list[i].Ref_Section = PyStr("")
          /\ record_list[j].Level = 2 /\ record_list[j].Ref_Section = PyStr("")
          /\ record_list[k].Level = 1
          /\ record_list[k].Ref_Section = PyInt(cfg.start_ref + 1)

\* ------------------------------------------------------------------------
\* Runs in accession mode
\* ------------------------------------------------------------------------

MaxAccessionEntries == 3

AccessionFlags == { "file", "dir", "all", "File" }

\* << prefix, accprefix, delimiter >>
AccessionLayouts ==
    { << None, None, PyStr("/") >>, << None, PyStr("ACC"), PyStr("/") >>,
      << PyStr("P"), None, PyStr("/") >>, << None, PyStr("ACC"), None >> }

InitAccession ==
    \E t \in TreesUpTo(MaxAccessionEntries, Names), fl \in AccessionFlags,
       l \in AccessionLayouts, st \in 0..MaxStartRef :
        Constructed(t, [Defaults EXCEPT !.accession_flag = PyStr(fl), !.prefix = l[1],
                                        !.accprefix = l[2], !.delimiter = l[3],
                                        !.start_ref = st])

SpecAccession == InitAccession /\ [][Next]_vars

\* the accession code for the counter value k
AccessionCode(k) ==
    IF ~ IsNone(cfg.accession_prefix)
    THEN PyStr(cfg.accession_prefix.s \o delimiter \o IntToStr(k)) ELSE PyInt(k)

\* the marker of an entry the mode does not count
AccessionMarker(kind) ==
    IF ~ IsNone(cfg.accession_prefix)
    THEN PyStr(cfg.accession_prefix.s \o delimiter \o kind) ELSE PyStr(kind)

\* the kind of entry the accession mode counts, "" in mode all
CountedKind ==
    IF Casefold(cfg.accession_flag.s) = "file" THEN "File"
    ELSE IF Casefold(cfg.accession_flag.s) = "dir" THEN "Dir" ELSE ""

\* C13: in accession mode file (dir) the files (directories) get the
\* consecutive integers from the start value on in the order of the walk,
\* behind accession prefix + delimiter if there is a prefix, the counter
\* stands still on the entries of the other kind, and those get the marker
\* Dir (File), prefixed in the same way
C13_AccessionByKind ==
    CountedKind # "" =>
        /\ Len(accession_list) = Len(record_list)
        /\ \A i \in 1..Len(record_list) :
               accession_list[i]
                 = IF record_list[i].Type = CountedKind
                   THEN AccessionCode(cfg.start_ref
                          + Cardinality({ j \in 1..(i - 1) : record_list[j].Type = CountedKind }))
                   ELSE AccessionMarker(record_list[i].Type)
        /\ accession_count
             = cfg.start_ref
               + Cardinality({ j \in 1..Len(record_list) : record_list[j].Type = CountedKind })

\* mode dir with a prefix: a file has its marker and a directory recorded
\* after it has the third code
C13_Witness ==
    /\ CountedKind = "Dir" /\ ~ IsNone(cfg.accession_prefix)
    /\ \E i, j \in 1..Len(record_list) :
          /\ i < j
          /\ record_list[i].Type = "File" /\ accession_list[i] = AccessionMarker("File")
          /\ record_list[j].Type = "Dir"
          /\ accession_list[j] = AccessionCode(cfg.start_ref + 2)

\* C14: in accession mode all the k-th entry of the walk gets the code for
\* start value + k - 1, with or without a prefix, so that no two entries
\* share a code
C14_AccessionAll ==
    Casefold(cfg.accession_flag.s) = "all" =>
        /\ Len(accession_list) = Len(record_list)
        /\ \A i \in 1..Len(accession_list) :
               accession_list[i] = AccessionCode(cfg.start_ref + i - 1)
        /\ NoDuplicates(accession_list)

\* ------------------------------------------------------------------------
\* A second composition on the records of a finished run
\* ------------------------------------------------------------------------

\* a second call of init_reference_loop on the object of a finished run:
\* list_loop and reference_list are as the first call left them
InitReferenceLoopAgain ==
    /\ pc = "done"
    /\ Len(reference_list) = Len(df)
    /\ c' = 0
    /\ pc' = "composing"
    /\ UNCHANGED << tree, cfg, delimiter, accession_count, record_list, accession_list,
                    reference_list, df, stack, error, descended, returned >>
    /\ UNCHANGED mainvars

NextRerun == Next \/ InitReferenceLoopAgain

MaxRerunEntries == 3

InitRerun ==
    \E t \in TreesUpTo(MaxRerunEntries, Names), l \in Layouts :
        Constructed(t, [Defaults EXCEPT !.prefix = l[1], !.delimiter = l[2]])

SpecRerun == InitRerun /\ [][NextRerun]_vars

\* the table carries the final references of an earlier composition
Composed == Len(df) > 0 /\ ~ IsNone(df[1].Archive_Reference)

\* C15: a second run of init_reference_loop on the same records completes
\* and leaves every record with the final reference the first run gave it
C15_CompositionIdempotent ==
    [][ (pc = "composing" /\ c = Len(df) /\ Composed) => (pc' = "done" /\ df' = df) ]_vars

\* ------------------------------------------------------------------------
\* main: remove_empty_directories, init_dataframe, define_output_file and
\* the exporter of the output format
\* ------------------------------------------------------------------------

\* the state of init_dataframe that main leaves alone outside it
framevars == << delimiter, accession_count, record_list, accession_list,
                reference_list, df, c, descended, returned >>

\* main, no physical mode and no input to sort: the branch on self.empty_flag
Main ==
    /\ pc = "main"
    /\ pc' = IF cfg.empty_flag THEN "confirm" ELSE "new"
    /\ UNCHANGED << tree, cfg, stack, error >>
    /\ UNCHANGED framevars
    /\ UNCHANGED mainvars

\* remove_empty_directories: the test of the confirmation,
\* confirm_delete.lower() != "y", negated
Confirmed_prefix(input) == StartsWith(Casefold(input), "y")

Confirmed(input) == Casefold(input) = "y"

\* the directories os.walk(self.root, topdown = False) yields, each with the
\* listing os.walk took of it before descending; a directory os.scandir
\* fails on is passed over with everything below it (onerror is None)
OsWalk(t) ==
    { [dirpath |-> d,
       dirnames |-> { e \in Scandir(t, d) : IsDir(t, e) },
       filenames |-> { e \in Scandir(t, d) : IsFile(t, e) }] :
      d \in { p \in DOMAIN t : /\ IsDir(t, p)
                               /\ \A n \in 0..Len(p) : ~ ListFails(SubSeq(p, 1, n)) } }

\* remove_empty_directories: input() returns and the answer is tested; the
\* walk starts only after an accepted answer
RemoveEmptyDirectoriesConfirm ==
    /\ pc = "confirm"
    /\ \E input \in {"Y", "y", "n", "yes", ""} :
          /\ confirm_delete' = PyStr(input)
          /\ IF ~ Confirmed(input)
             THEN /\ Abort("SystemExit")
                  /\ UNCHANGED walk
             ELSE /\ pc' = "pruning"
                  /\ walk' = OsWalk(tree)
                  /\ UNCHANGED << stack, error, descended >>
    /\ UNCHANGED << tree, cfg, delimiter, accession_count, record_list, accession_list,
                    reference_list, df, c, returned, empty_dirs, outputs, attempts >>

\* remove_empty_directories: not any((dirnames, filenames))
IsEmpty_nofiles(w) == w.filenames = {}

IsEmpty(w) == w.dirnames = {} /\ w.filenames = {}

\* os.rmdir(dirpath) raises OSError: the directory has entries or the
\* system refuses
RmdirFails(dirpath) == Scandir(tree, dirpath) # {} \/ dirpath \in cfg.faults.rmdir

\* one iteration of the loop over os.walk: a directory comes after every
\* directory below it
PruneStep ==
    /\ pc = "pruning"
    /\ \E w \in walk :
          /\ \A v \in walk : ~ (Len(v.dirpath) > Len(w.dirpath)
                                /\ SubSeq(v.dirpath, 1, Len(w.dirpath)) = w.dirpath)
          /\ walk' = walk \ {w}
          /\ IF IsEmpty(w)
             THEN /\ empty_dirs' = Append(empty_dirs, w.dirpath)
                  /\ tree' = IF RmdirFails(w.dirpath) THEN tree
                             ELSE [ q \in DOMAIN tree \ {w.dirpath} |-> tree[q] ]
             ELSE UNCHANGED << empty_dirs, tree >>
    /\ UNCHANGED << cfg, stack, pc, error, outputs, attempts, confirm_delete >>
    /\ UNCHANGED framevars

\* path_check(output_path) and, with meta_dir_flag, path_check of the meta
\* directory under it: what define_output_file leaves under output_path
define_output_file(created) ==
    created \cup {"output_path"} \cup (IF cfg.meta_dir_flag THEN {METAFOLDER} ELSE {})

\* remove_empty_directories after the loop: the list of removed directories
\* is exported when there is one, then main goes on to init_dataframe
PruneEnd ==
    /\ pc = "pruning"
    /\ walk = {}
    /\ IF empty_dirs # << >>
       THEN /\ outputs' = define_output_file(outputs)
            /\ pc' = "export_list_txt"
       ELSE /\ pc' = "new"
            /\ UNCHANGED outputs
    /\ attempts' = 0
    /\ UNCHANGED << tree, cfg, stack, error, walk, empty_dirs, confirm_delete >>
    /\ UNCHANGED framevars

\* main after init_dataframe: define_output_file, then the branch on
\* self.output_format; "dict" returns export_dict(self.df) and writes nothing
DefineOutputFile ==
    /\ pc = "done"
    /\ outputs' = define_output_file(outputs)
    /\ pc' = IF cfg.output_format \in {"xlsx", "csv", "ods", "json", "xml"}
             THEN "export_catalogue" ELSE "exported"
    /\ attempts' = 0
    /\ UNCHANGED << tree, cfg, stack, error, walk, empty_dirs, confirm_delete >>
    /\ UNCHANGED framevars

\* opening the file for writing raises PermissionError: cfg.locked says for
\* each file whether it is free, locked for the first attempt or for ever
Locked(file) ==
    cfg.locked[file] = "forever" \/ (cfg.locked[file] = "once" /\ attempts = 0)

\* the try block of an exporter (export_list_txt, export_xl, export_csv,
\* export_ods, export_json, export_xml): the file is written, or
\* PermissionError is caught and the exporter sleeps
ExportAttempt(file) ==
    /\ pc = "export_" \o file
    /\ IF Locked(file)
       THEN /\ pc' = "sleep_" \o file
            /\ UNCHANGED outputs
       ELSE /\ pc' = IF file = "list_txt" THEN "new" ELSE "exported"
            /\ outputs' = outputs \cup {file}
    /\ UNCHANGED << tree, cfg, stack, error, walk, empty_dirs, attempts, confirm_delete >>
    /\ UNCHANGED framevars

MaxAttempts == 2

\* the except block of an exporter after time.sleep(10): the exporter calls
\* itself with the same arguments; no attempt is counted by the code, the
\* depth of the nesting is followed here up to MaxAttempts
ExportRetry(file) ==
    /\ pc = "sleep_" \o file
    /\ pc' = "export_" \o file
    /\ attempts' = IF attempts < MaxAttempts THEN attempts + 1 ELSE attempts
    /\ UNCHANGED << tree, cfg, stack, error, walk, empty_dirs, outputs, confirm_delete >>
    /\ UNCHANGED framevars

NextMain ==
    \/ Main
    \/ RemoveEmptyDirectoriesConfirm
    \/ PruneStep
    \/ PruneEnd
    \/ Next
    \/ DefineOutputFile
    \/ ExportAttempt("list_txt")
    \/ ExportRetry("list_txt")
    \/ ExportAttempt("catalogue")
    \/ ExportRetry("catalogue")

MaxMainEntries == 3

\* the arguments of the runs of main on the tree t: one departure from the
\* defaults at a time, a failing system call on one entry, a keyword file
\* that holds no JSON object, a locked output file, another output format
MainArguments(t) ==
    { [Defaults EXCEPT !.faults[k] = {p}, !.fixity = PyStr("SHA-1")] :
          k \in {"stat", "hash", "list", "rmdir"}, p \in DOMAIN t }
    \cup { [Defaults EXCEPT !.keywords_mode = "from_json",
                            !.keywords_list = PyList(<< JsonPath >>),
                            !.json = [isdict |-> FALSE, items |-> << >>]] }
    \cup { [Defaults EXCEPT !.locked[f] = l] :
               f \in {"list_txt", "catalogue"}, l \in {"free", "once", "forever"} }
    \cup { [Defaults EXCEPT !.output_format = o, !.meta_dir_flag = m] :
               o \in {"csv", "dict"}, m \in BOOLEAN }

InitMain ==
    \E t \in TreesUpTo(MaxMainEntries, Names), e \in BOOLEAN :
        \E args \in MainArguments(t) :
            Attributes(t, [args EXCEPT !.empty_flag = e]) /\ pc = "main"

SpecMain == InitMain /\ [][NextMain]_vars

\* the single thread of main keeps running: a step that can be taken is taken
SpecMainFair == SpecMain /\ WF_vars(NextMain)

\* ------------------------------------------------------------------------
\* Properties of main
\* ------------------------------------------------------------------------

\* input() has returned an answer whose lower-case form is not "y"
Refused == ~ IsNone(confirm_delete) /\ Casefold(confirm_delete.s) # "y"

\* input() has returned an answer other than the capital letter
NotTypedY == ~ IsNone(confirm_delete) /\ confirm_delete.s # "Y"

\* a directory with nothing in it
EmptyDirectory(p) == p \in DOMAIN tree /\ IsDir(tree, p) /\ Scandir(tree, p) = {}

\* no directory listed in empty_dirs is gone
NothingRemoved == \A i \in 1..Len(empty_dirs) : empty_dirs[i] \in DOMAIN tree

C17_OnlyEmptyRemoved ==
    [][ /\ \A p \in DOMAIN tree' : p \in DOMAIN tree /\ tree'[p] = tree[p]
        /\ \A p \in DOMAIN tree \ DOMAIN tree' :
              /\ EmptyDirectory(p)
              /\ \E w \in walk : w.dirpath = p /\ w.dirnames = {} /\ w.filenames = {} ]_vars

\* the pruner has finished, it removed a directory and kept one that is
\* empty now but held a subdirectory when it was listed
C17_Witness ==
    /\ pc = "pruning" /\ walk = {}
    /\ \E i \in 1..Len(empty_dirs) : empty_dirs[i] \notin DOMAIN tree
    /\ \E p \in DOMAIN tree :
          EmptyDirectory(p) /\ \A i \in 1..Len(empty_dirs) : empty_dirs[i] # p

\* C18: when the keyword file that holds no JSON object ends the run, no
\* empty directory has been removed and nothing exists under output_path
C18_ConfigErrorBeforeMutation ==
    (/\ pc = "failed" /\ error = "SystemExit" /\ ~ Refused
     /\ cfg.keywords_mode = "from_json" /\ ~ cfg.json.isdict)
        => (NothingRemoved /\ outputs = {})

\* main is exporting the catalogue or has done so
CatalogueStage == pc \in {"export_catalogue", "sleep_catalogue", "exported"}

MaxSortEntries == 3

\* names whose order changes with the case: "B" < "a" < "c" by code point
SortNames == {"a", "B", "c"}

InitSort ==
    \E t \in TreesUpTo(MaxSortEntries, SortNames), k \in {"folders_first", "alphabetical"} :
        Constructed(t, [Defaults EXCEPT !.sort_key = k])

SpecSort == InitSort /\ [][Next]_vars

\* C21: of two recorded children of one directory the one that comes first
\* by the sort key has the smaller counter: with folders_first a directory
\* before a file and, within a kind, the smaller lower-cased name; with
\* alphabetical the smaller lower-cased name whatever the kinds
C21_SiblingOrder ==
    \A i, j \in 1..Len(record_list) :
        LET r == record_list[i]
            q == record_list[j]
            first == IF cfg.sort_key = "folders_first" /\ r.Type # q.Type
                     THEN r.Type = "Dir"
                     ELSE StrLess(Casefold(Basename(r.FullName)), Casefold(Basename(q.FullName)))
        IN  (r.Level > 0 /\ q.Level > 0 /\ r.Parent = q.Parent /\ first)
                => r.Ref_Section.n < q.Ref_Section.n

\* an alphabetical run numbered the file a before the directory B, whose
\* name is the smaller one by code point
C21_Witness ==
    /\ pc = "done" /\ cfg.sort_key = "alphabetical"
    /\ \E i, j \in 1..Len(record_list) :
          /\ record_list[i].Parent = record_list[j].Parent
          /\ record_list[i].Type = "File" /\ Basename(record_list[i].FullName) = "a"
          /\ record_list[j].Type = "Dir" /\ Basename(record_list[j].FullName) = "B"
          /\ record_list[i].Ref_Section.n < record_list[j].Ref_Section.n

\* ------------------------------------------------------------------------
\* Runs on trees with hidden entries and entries with reserved names
\* ------------------------------------------------------------------------

MaxReservedEntries == 3

\* a visible name, a hidden one, the meta folder, a binary of the tool and
\* the file name of the module
ReservedNames == {"A", ".h", METAFOLDER, "auto_ref.exe", SCRIPT}

InitReserved ==
    \E t \in TreesUpTo(MaxReservedEntries, ReservedNames), h \in BOOLEAN, st \in 0..MaxStartRef :
        Constructed(t, [Defaults EXCEPT !.hidden_flag = h, !.start_ref = st])

SpecReserved == InitReserved /\ [][Next]_vars

\* C22: no record has a reserved name, or without hidden_flag a name that
\* starts with ".", anywhere on its path; when the run is done every other
\* entry of the tree has a record, and the counters of the recorded
\* children of a directory are consecutive from its first counter
C22_Exclusions ==
    LET excluded(name) ==
            \/ name \in {METAFOLDER, "auto_ref.exe", "auto_ref.bin", SCRIPT}
            \/ (cfg.hidden_flag = FALSE /\ StartsWith(name, "."))
        kept(p) == \A k \in 1..Len(p) : ~ excluded(p[k])
        recorded(p) == \E i \in 1..Len(record_list) : record_list[i].FullName = p
        counters(d) == { record_list[i].Ref_Section.n :
                           i \in { k \in 1..Len(record_list) :
                                     /\ record_list[k].Level > 0
                                     /\ record_list[k].Parent = d } }
        children(d) == { p \in Scandir(tree, d) : kept(p) }
    IN  /\ \A i \in 1..Len(record_list) : kept(record_list[i].FullName)
        /\ pc = "done" =>
              /\ \A p \in DOMAIN tree : kept(p) => recorded(p)
              /\ \A d \in DOMAIN tree :
                    (IsDir(tree, d) /\ kept(d)) =>
                        counters(d) = FirstCounter(d)..(FirstCounter(d) + Cardinality(children(d)) - 1)

\* a finished run without hidden_flag whose root holds a hidden entry, the
\* meta folder and a visible entry that got the first counter
C22_Witness ==
    /\ pc = "done" /\ cfg.hidden_flag = FALSE
    /\ << ".h" >> \in DOMAIN tree /\ << METAFOLDER >> \in DOMAIN tree
    /\ \E i \in 1..Len(record_list) :
          /\ record_list[i].FullName = << "A" >>
          /\ record_list[i].Ref_Section = PyInt(cfg.start_ref)

\* ------------------------------------------------------------------------
\* Runs with a JSON object one of whose keys contains a directory name
\* ------------------------------------------------------------------------

MaxJsonEntries == 3

InitJson ==
    \E t \in TreesUpTo(MaxJsonEntries, {"John Smith", "John"}),
       key \in {"JOHN SMITH", "John Smith"}, ro \in BOOLEAN, cs \in BOOLEAN :
        Constructed(t, [Defaults EXCEPT !.keywords_mode = "from_json",
                                        !.keywords_list = PyList(<< JsonPath >>),
                                        !.json = [isdict |-> TRUE, items |-> << << key, "JSM" >> >>],
                                        !.keywords_retain_order = ro,
                                        !.keywords_case_sensitivity = cs])

SpecJson == InitJson /\ [][Next]_vars

\* C23: with keywords_mode "from_json" a directory is recorded with the
\* value of the key its name, compared as the case toggle says, is equal to,
\* and with its counter when its name is equal to no key
C23_ExactKey ==
    [][ ( Pending /\ cfg.keywords_mode = "from_json" /\ cfg.json.isdict
          /\ IsDir(tree, PendingPath) )
        => /\ LastRecord(record_list').FullName = PendingPath
           /\ LastRecord(record_list').Ref_Section
                = IF Literals(Basename(PendingPath)) # << >>
                  THEN PyStr(Literals(Basename(PendingPath))[1][2])
                  ELSE PendingCounter ]_vars

\* ------------------------------------------------------------------------
\* Further properties of runs with a suffix
\* ------------------------------------------------------------------------

\* C24: when the suffix goes to directories, the final reference of an entry
\* inside a directory below the root is the final reference of that
\* directory without the suffix at its end, the delimiter and the token of
\* the entry
C24_SuffixNotInherited ==
    (pc = "done" /\ cfg.suffix_options \in {"apply_to_folders", "apply_to_both"}) =>
        \A i, j \in 1..Len(df) :
            (df[i].Level >= 1 /\ df[j].Level = df[i].Level + 1 /\ df[j].Parent = df[i].FullName)
            => LET dir == df[i].Archive_Reference.s
               IN  df[j].Archive_Reference
                     = PyStr(SubSeq(dir, 1, Len(dir) - Len(cfg.suffix.s)) \o delimiter
                             \o ToStr(df[j].Ref_Section))

\* ------------------------------------------------------------------------
\* Further properties of runs with a level limit
\* ------------------------------------------------------------------------

\* C25: under a level limit of 1 or more (and a start_ref of 1 or more) the
\* final reference of an entry recorded with the empty token, however far
\* below the limit, is the final reference of its ancestor at the limit level
C25_EmptyTokensCollapse ==
    (pc = "done" /\ cfg.level_limit.n >= 1 /\ cfg.start_ref >= 1) =>
        \A i, j \in 1..Len(df) :
            ( /\ df[j].Ref_Section = PyStr("")
              /\ df[i].Level = cfg.level_limit.n
              /\ Len(df[j].FullName) > Len(df[i].FullName)
              /\ SubSeq(df[j].FullName, 1, Len(df[i].FullName)) = df[i].FullName )
            => df[j].Archive_Reference = df[i].Archive_Reference

\* ------------------------------------------------------------------------
\* Further properties of runs with no keywords, no suffix and no level limit
\* ------------------------------------------------------------------------

\* C26: with no keywords, suffix or level limit and any start_ref from 0 on,
\* no two records of a finished run have the same final reference
C26_DistinctReferences ==
    (pc = "done" /\ NoOverrides) =>
        \A i, j \in 1..Len(df) :
            i # j => df[i].Archive_Reference # df[j].Archive_Reference

\* ------------------------------------------------------------------------
\* Runs on a root that may be the root of the file system, whose parent
\* path os.path.abspath(os.path.join("/", os.pardir)) is "/" itself
\* ------------------------------------------------------------------------

MaxRootEntries == 3

InitRoot ==
    \E t \in TreesUpTo(MaxRootEntries, Names), rp \in {ABOVE, ROOT}, l \in Layouts :
        Constructed(t, [Defaults EXCEPT !.root_parent = rp, !.prefix = l[1],
                                        !.delimiter = l[2]])

SpecRoot == InitRoot /\ [][Next]_vars

\* C27: for each record the upward walk of reference_loop ends within
\* level + 1 lookups and appends one reference, and the finished list has
\* one reference per record
C27_CompositionTerminates ==
    [][ /\ (pc = "composing" /\ c < Len(df)) =>
              /\ reference_loop(df[c + 1].Ref_Section, df[c + 1].Parent, 1, df[c + 1].Level,
                                None, delimiter, df[c + 1].Level).exc = ""
              /\ Len(reference_list') = Len(reference_list) + 1
              /\ c' = c + 1
        /\ pc' = "done" => Len(reference_list') = Len(df') ]_vars

\* C28: at every point of the enumeration the first record is the root,
\* with level 0 and a parent that has no record, and every other record
\* comes after the record of its parent directory, one level below it
C28_ParentFirst ==
    \A i \in 1..Len(record_list) :
        LET r == record_list[i]
            known == { record_list[k].FullName : k \in 1..Len(record_list) }
        IN  IF i = 1
            THEN r.FullName = ROOT /\ r.Level = 0 /\ r.Parent \notin known
            ELSE /\ r.Level > 0
                 /\ \E j \in 1..(i - 1) :
                       /\ record_list[j].FullName = r.Parent
                       /\ record_list[j].Type = "Dir"
                       /\ r.Level = record_list[j].Level + 1

\* ------------------------------------------------------------------------
\* Further properties of runs with an accession mode
\* ------------------------------------------------------------------------

\* C29: with an accession mode the delimiter of the references stays the one
\* __init__ set ("/" when none was passed), the raw tokens are the counters
\* and the final reference of an entry inside a directory below the root is
\* the final reference of that directory, that delimiter and its token, as
\* they are with accession disabled
C29_AccessionLeavesReferences ==
    LET configured == IF IsNone(cfg.delimiter) THEN "/" ELSE cfg.delimiter.s
    IN  /\ delimiter = configured
        /\ (pc = "done" /\ cfg.start_ref >= 1) =>
              \A i, j \in 1..Len(df) :
                  (df[i].Level >= 1 /\ df[j].Level = df[i].Level + 1
                   /\ df[j].Parent = df[i].FullName)
                  => /\ df[j].Ref_Section.t = "int"
                     /\ df[j].Archive_Reference
                          = PyStr(df[i].Archive_Reference.s \o configured
                                  \o ToStr(df[j].Ref_Section))

\* ------------------------------------------------------------------------
\* Further properties of keyword_replace
\* ------------------------------------------------------------------------

\* C30: in "initialise" and "firstletters" mode keyword_replace returns a
\* token, and raises nothing, on every directory whose name matches
C30_KeywordReplaceTotal ==
    ( /\ pc = "returned" /\ cfg.keywords_mode \in {"initialise", "firstletters"}
      /\ IsDir(tree, CalledPath) /\ NameMatches(Basename(CalledPath)) )
    => (returned.exc = "" /\ returned.val.t = "str")

====
